---- MODULE Spec2Model ----
(***************************************************************************)
(* Model of ado-pr-mcp: the two resource handlers (resources.py), the      *)
(* lazily constructed REST client (azure_client.py), the git remote        *)
(* detector and URL parser (git_detector.py) and the record types          *)
(* (models.py).                                                            *)
(*                                                                         *)
(* Python str values that the code inspects character by character (the    *)
(* git stdout, URLs, organization / project / repository names) are        *)
(* sequences of one-character strings.  Optional[T] is a sequence of       *)
(* length at most one: None is << >>, a present value x is << x >>.        *)
(***************************************************************************)
EXTENDS Integers, Sequences, FiniteSets, TLC

(***************************************************************************)
(* Bounds of the model.                                                    *)
(***************************************************************************)
MaxRequests == 2
MaxPRs == 2
MaxConstructions == 3

(***************************************************************************)
(* Optional values.                                                        *)
(***************************************************************************)
None == << >>
Some(x) == << x >>
IsNone(o) == Len(o) = 0
TheValue(o) == o[1]

(***************************************************************************)
(* str primitives over character sequences.                                *)
(***************************************************************************)
LowerLetters == <<"a","b","c","d","e","f","g","h","i","j","k","l","m",
                  "n","o","p","q","r","s","t","u","v","w","x","y","z">>
UpperLetters == <<"A","B","C","D","E","F","G","H","I","J","K","L","M",
                  "N","O","P","Q","R","S","T","U","V","W","X","Y","Z">>
Digits == {"0","1","2","3","4","5","6","7","8","9"}
Range(s) == { s[i] : i \in 1..Len(s) }
Letters == Range(LowerLetters) \cup Range(UpperLetters)

\* str.strip() with no argument removes leading and trailing whitespace.
Whitespace == {" ", "\t", "\n", "\r"}

LowerChar(c) ==
    IF c \in Range(UpperLetters)
    THEN LowerLetters[CHOOSE i \in 1..26 : UpperLetters[i] = c]
    ELSE c

StrLower(s) == [i \in 1..Len(s) |-> LowerChar(s[i])]

\* s[i:] with a 1-based index
From(s, i) == SubSeq(s, i, Len(s))

\* s[:i-1] with a 1-based index
Before(s, i) == SubSeq(s, 1, i - 1)

StartsWithAt(s, t, i) ==
    /\ i >= 1
    /\ i + Len(t) - 1 <= Len(s)
    /\ \A k \in 1..Len(t) : s[i + k - 1] = t[k]

\* str.find from position `from`: 1-based index of the first occurrence, 0 if none
FindFrom(s, t, from) ==
    LET hits == { i \in from..(Len(s) - Len(t) + 1) : StartsWithAt(s, t, i) }
    IN IF hits = {} THEN 0 ELSE CHOOSE i \in hits : \A j \in hits : i <= j

Find(s, t) == FindFrom(s, t, 1)

\* str.rfind: 1-based index of the last occurrence, 0 if none
RFind(s, t) ==
    LET hits == { i \in 1..(Len(s) - Len(t) + 1) : StartsWithAt(s, t, i) }
    IN IF hits = {} THEN 0 ELSE CHOOSE i \in hits : \A j \in hits : i >= j

\* the `in` operator on str
Contains(s, t) == Find(s, t) # 0

\* 1-based index of the first character of s, at or after `from`, in set cs
FindAnyFrom(s, cs, from) ==
    LET hits == { i \in from..Len(s) : s[i] \in cs }
    IN IF hits = {} THEN 0 ELSE CHOOSE i \in hits : \A j \in hits : i <= j

LStrip(s, cs) ==
    LET keep == { i \in 1..Len(s) : s[i] \notin cs }
    IN IF keep = {} THEN << >>
       ELSE From(s, CHOOSE i \in keep : \A j \in keep : i <= j)

Strip(s) ==
    LET keep == { i \in 1..Len(s) : s[i] \notin Whitespace }
    IN IF keep = {} THEN << >>
       ELSE SubSeq(s, CHOOSE i \in keep : \A j \in keep : i <= j,
                      CHOOSE i \in keep : \A j \in keep : i >= j)

\* s with every character of the set cs removed
RemoveChars(s, cs) == SelectSeq(s, LAMBDA c : c \notin cs)

\* str.split(sep) for a one-character separator: the list of segments
RECURSIVE Split(_, _)
Split(s, sep) ==
    LET i == Find(s, <<sep>>)
    IN IF i = 0 THEN << s >>
       ELSE << Before(s, i) >> \o Split(From(s, i + 1), sep)

(***************************************************************************)
(* urllib.parse.urlparse as called by parse_azure_devops_url: the fields   *)
(* the caller reads (netloc, path) and whether the call raises.            *)
(* Inputs with a matched pair of square brackets in the netloc are not     *)
(* part of the model's inputs.                                             *)
(***************************************************************************)
SchemeChars == Letters \cup Digits \cup {"+", "-", "."}
C0ControlOrSpace == {" ", "\t", "\n", "\r"}
UnsafeUrlBytes == {"\t", "\r", "\n"}
UsesParams == { << >>, <<"f","t","p">>, <<"h","t","t","p">>,
                <<"h","t","t","p","s">>, <<"s","f","t","p">> }

SplitScheme(url) ==
    LET i == Find(url, <<":">>)
    IN IF /\ i > 1
          /\ url[1] \in Letters
          /\ \A k \in 1..(i - 1) : url[k] \in SchemeChars
       THEN [scheme |-> StrLower(Before(url, i)), rest |-> From(url, i + 1)]
       ELSE [scheme |-> << >>, rest |-> url]

SplitNetloc(url) ==
    IF StartsWithAt(url, <<"/", "/">>, 1)
    THEN LET d == FindAnyFrom(url, {"/", "?", "#"}, 3)
         IN IF d = 0
            THEN [netloc |-> From(url, 3), rest |-> << >>]
            ELSE [netloc |-> SubSeq(url, 3, d - 1), rest |-> From(url, d)]
    ELSE [netloc |-> << >>, rest |-> url]

CutAt(url, c) ==
    LET i == Find(url, <<c>>)
    IN IF i = 0 THEN url ELSE Before(url, i)

SplitParams(scheme, url) ==
    IF scheme \in UsesParams /\ Contains(url, <<";">>)
    THEN LET slash == RFind(url, <<"/">>)
             i == FindFrom(url, <<";">>, IF slash = 0 THEN 1 ELSE slash)
         IN IF i = 0 THEN url ELSE Before(url, i)
    ELSE url

\* the result, given the scheme and the split of the rest at the netloc
ParseResult(scheme, n) ==
    [raises |-> ("[" \in Range(n.netloc)) # ("]" \in Range(n.netloc)),
     scheme |-> scheme,
     netloc |-> n.netloc,
     path |-> SplitParams(scheme, CutAt(CutAt(n.rest, "#"), "?"))]

AfterScheme(s) == ParseResult(s.scheme, SplitNetloc(s.rest))

urlparse(git_url) ==
    AfterScheme(SplitScheme(
        RemoveChars(LStrip(git_url, C0ControlOrSpace), UnsafeUrlBytes)))

(***************************************************************************)
(* git_detector.py                                                         *)
(***************************************************************************)
RepoInfo(org, proj, repo) ==
    [organization |-> org, project |-> proj, repository |-> repo]

DevAzureCom == <<"d","e","v",".","a","z","u","r","e",".","c","o","m">>
VisualStudioCom == <<"v","i","s","u","a","l","s","t","u","d","i","o",".","c","o","m">>
GitMarker == <<"_","g","i","t">>

\* re.search(r"/([^/]+)/([^/]+)/_git/([^/]+)", path): the leftmost match.
\* Every "/" of the pattern is a segment boundary of the path, and a group
\* [^/]+ followed by "/" or by the end of the pattern is a whole non-empty
\* segment (the last group: the segment up to the next "/" or the end).
\* seg is path.split("/"); the result is the set of segment indices at
\* which the pattern matches.
ModernMatches(seg) ==
    { k \in 2..(Len(seg) - 3) :
        /\ seg[k] # << >>
        /\ seg[k + 1] # << >>
        /\ seg[k + 2] = GitMarker
        /\ seg[k + 3] # << >> }

\* re.search(r"/([^/]+)/_git/([^/]+)", path)
LegacyMatches(seg) ==
    { k \in 2..(Len(seg) - 2) :
        /\ seg[k] # << >>
        /\ seg[k + 1] = GitMarker
        /\ seg[k + 2] # << >> }

Leftmost(S) == CHOOSE k \in S : \A j \in S : k <= j

\* re.match(r"^([^.]+)\.visualstudio\.com", netloc): the first label, when
\* it is non-empty and followed by ".visualstudio.com"
LegacyOrg(netloc) ==
    LET dot == Find(netloc, <<".">>)
    IN IF dot > 1 /\ StartsWithAt(netloc, <<".">> \o VisualStudioCom, dot)
       THEN Some(Before(netloc, dot))
       ELSE None

\* Result of a call: exc is the exception raised (None if the call
\* returned), value is the returned value (None if the call raised).
Returned(v) == [exc |-> None, value |-> Some(v)]
Raised(e) == [exc |-> Some(e), value |-> None]
HasRaised(res) == ~IsNone(res.exc)
ValueOf(res) == TheValue(res.value)

\* An exception object: its class, its message text, the values formatted
\* into the message, and the HTTP status it carries (0: none).
Exception(type, text) ==
    [type |-> type, text |-> text, args |-> << >>, status_code |-> 0]

\* lines 60-66: the RepoInfo of the leftmost match k of the modern pattern
ModernRepoInfo(seg, k) == RepoInfo(seg[k], seg[k + 1], seg[k + 3])

\* lines 76-81: the RepoInfo of the leftmost match k of the legacy pattern
LegacyRepoInfo(org, seg, k) == RepoInfo(org, seg[k], seg[k + 2])

ModernBranch(seg, m) ==
    IF m # {} THEN Some(ModernRepoInfo(seg, Leftmost(m))) ELSE None

LegacyBranch(org, seg, m) ==
    IF ~IsNone(org) /\ m # {}
    THEN Some(LegacyRepoInfo(TheValue(org), seg, Leftmost(m)))
    ELSE None

\* lines 55-83 on the result of urlparse, seg being parsed.path.split("/")
MatchParsed(parsed, seg) ==
    IF parsed.raises THEN Raised(Exception("ValueError", "Invalid IPv6 URL"))
    ELSE IF Contains(parsed.netloc, DevAzureCom)
    THEN Returned(ModernBranch(seg, ModernMatches(seg)))
    ELSE IF Contains(parsed.netloc, VisualStudioCom)
    THEN Returned(LegacyBranch(LegacyOrg(parsed.netloc), seg, LegacyMatches(seg)))
    ELSE Returned(None)

ParsePath(parsed) == MatchParsed(parsed, Split(parsed.path, "/"))

parse_azure_devops_url(git_url) == ParsePath(urlparse(git_url))

\* The ways subprocess.run(["git", "config", "--get", "remote.origin.url"],
\* check=True, timeout=5) can end: the process exits with a return code and
\* its stdout, the executable is missing, or the timeout expires.
GitExit(returncode, stdout) ==
    [kind |-> "exit", returncode |-> returncode, stdout |-> stdout]
GitNotFound == [kind |-> "FileNotFoundError", returncode |-> 0, stdout |-> << >>]
GitTimeout == [kind |-> "TimeoutExpired", returncode |-> 0, stdout |-> << >>]

subprocess_run(o) ==
    IF o.kind = "exit"
    THEN IF o.returncode # 0
         THEN Raised(Exception("CalledProcessError", "non-zero exit status"))
         ELSE Returned(o.stdout)
    ELSE Raised(Exception(o.kind, "git"))

CaughtByGetGitRemoteUrl ==
    {"CalledProcessError", "TimeoutExpired", "FileNotFoundError"}

\* lines 26-36 on the outcome of subprocess.run
AfterRun(result) ==
    IF ~HasRaised(result) THEN Returned(Some(Strip(ValueOf(result))))
    ELSE IF TheValue(result.exc).type \in CaughtByGetGitRemoteUrl
    THEN Returned(None)
    ELSE result

get_git_remote_url(o) == AfterRun(subprocess_run(o))

\* truth value of an Optional[str]: None and "" are false
Truthy(optstr) == ~IsNone(optstr) /\ TheValue(optstr) # << >>

\* lines 94-96 on the result of get_git_remote_url
AfterRemoteUrl(url) ==
    IF HasRaised(url) THEN url
    ELSE IF Truthy(ValueOf(url)) THEN parse_azure_devops_url(TheValue(ValueOf(url)))
    ELSE Returned(None)

detect_current_repo(o) == AfterRemoteUrl(get_git_remote_url(o))

(***************************************************************************)
(* models.py                                                               *)
(***************************************************************************)
PullRequestAuthor(display_name, unique_name, id) ==
    [display_name |-> display_name, unique_name |-> unique_name, id |-> id]

from_pull_requests(prs) == [pull_requests |-> prs, count |-> Len(prs)]

(***************************************************************************)
(* azure_client.py                                                         *)
(***************************************************************************)
API_VERSION == "7.1"

HttpsDevAzureCom == <<"h","t","t","p","s",":","/","/">> \o DevAzureCom \o <<"/">>
ApisGitRepositories ==
    <<"/","_","a","p","i","s","/","g","i","t","/",
      "r","e","p","o","s","i","t","o","r","i","e","s","/">>
PullRequestsSuffix == <<"/","p","u","l","l","r","e","q","u","e","s","t","s">>

\* AzureDevOpsClient.__init__; serial tells the instances of a process apart
AzureDevOpsClient(organization, serial) ==
    [organization |-> organization,
     base_url |-> HttpsDevAzureCom \o organization,
     serial |-> serial]

\* a filter test written `if status and status != "all"`
RequestParams_SkipsEmpty(status) ==
    IF status # "all" /\ status # ""
    THEN ("api-version" :> API_VERSION) @@ ("searchCriteria.status" :> status)
    ELSE ("api-version" :> API_VERSION)

\* the query parameters of the GET
RequestParams(status) ==
    IF status # "all"
    THEN ("api-version" :> API_VERSION) @@ ("searchCriteria.status" :> status)
    ELSE ("api-version" :> API_VERSION)

\* the GET that get_pull_requests issues
BuildRequest(self, project, repository, status) ==
    [url |-> self.base_url \o <<"/">> \o project \o ApisGitRepositories
               \o repository \o PullRequestsSuffix,
     params |-> RequestParams(status)]

\* dict.get(key, default)
Get(d, key, default) == IF key \in DOMAIN d THEN d[key] ELSE default

MandatoryKeys ==
    {"pullRequestId", "title", "status", "creationDate",
     "sourceRefName", "targetRefName", "repository"}

EmptyObject == [k \in {} |-> ""]

\* a loop body that reads the title as pr_data.get("title", "")
MapPullRequest_TitleDefault(pr_data) ==
    IF /\ (MandatoryKeys \ {"title"}) \subseteq DOMAIN pr_data
       /\ "id" \in DOMAIN pr_data["repository"]
    THEN LET created_by_data == Get(pr_data, "createdBy", EmptyObject)
         IN Returned(
              [pull_request_id |-> pr_data["pullRequestId"],
               title |-> Get(pr_data, "title", ""),
               description |-> IF "description" \in DOMAIN pr_data
                               THEN Some(pr_data["description"]) ELSE None,
               status |-> pr_data["status"],
               created_date |-> pr_data["creationDate"],
               created_by |-> PullRequestAuthor(
                                Get(created_by_data, "displayName", "Unknown"),
                                Get(created_by_data, "uniqueName", ""),
                                Get(created_by_data, "id", "")),
               source_ref_name |-> pr_data["sourceRefName"],
               target_ref_name |-> pr_data["targetRefName"],
               url |-> Get(pr_data, "url", ""),
               repository_id |-> pr_data["repository"]["id"]])
    ELSE Raised(Exception("KeyError", "missing key"))

\* the body of the loop over data["value"]: one PullRequest, or KeyError
MapPullRequest(pr_data) ==
    IF /\ MandatoryKeys \subseteq DOMAIN pr_data
       /\ "id" \in DOMAIN pr_data["repository"]
    THEN LET created_by_data == Get(pr_data, "createdBy", EmptyObject)
         IN Returned(
              [pull_request_id |-> pr_data["pullRequestId"],
               title |-> pr_data["title"],
               description |-> IF "description" \in DOMAIN pr_data
                               THEN Some(pr_data["description"]) ELSE None,
               status |-> pr_data["status"],
               created_date |-> pr_data["creationDate"],
               created_by |-> PullRequestAuthor(
                                Get(created_by_data, "displayName", "Unknown"),
                                Get(created_by_data, "uniqueName", ""),
                                Get(created_by_data, "id", "")),
               source_ref_name |-> pr_data["sourceRefName"],
               target_ref_name |-> pr_data["targetRefName"],
               url |-> Get(pr_data, "url", ""),
               repository_id |-> pr_data["repository"]["id"]])
    ELSE Raised(Exception("KeyError", "missing key"))

\* a loop that inserts each pull request at the front of pr_list
RECURSIVE MapPullRequests_Prepend(_, _)
MapPullRequests_Prepend(value, pr_list) ==
    IF value = << >> THEN Returned(pr_list)
    ELSE LET pr == MapPullRequest(Head(value))
         IN IF HasRaised(pr) THEN pr
            ELSE MapPullRequests_Prepend(Tail(value), <<ValueOf(pr)>> \o pr_list)

\* the loop: pr_list after the elements of value, or the first exception
RECURSIVE MapPullRequests(_, _)
MapPullRequests(value, pr_list) ==
    IF value = << >> THEN Returned(pr_list)
    ELSE LET pr == MapPullRequest(Head(value))
         IN IF HasRaised(pr) THEN pr
            ELSE MapPullRequests(Tail(value), Append(pr_list, ValueOf(pr)))

\* The ways `await self.client.get(url, params=params)` can end: a response
\* with a status code and a JSON body, or a transport exception.
HttpResponse(status_code, data) ==
    [kind |-> "response", status_code |-> status_code, data |-> data]
HttpConnectError == [kind |-> "ConnectError", status_code |-> 0, data |-> EmptyObject]
HttpTimeout == [kind |-> "TimeoutException", status_code |-> 0, data |-> EmptyObject]

\* Response.raise_for_status(): HTTPStatusError unless the status is 2xx
IsSuccess(status_code) == status_code >= 200 /\ status_code <= 299

AuthenticationFailed ==
    Exception("ValueError",
              "Authentication failed. Check AZURE_DEVOPS_PAT token and permissions")

NotFound(project, repository) ==
    [type |-> "ValueError",
     text |-> "Project '{project}' or repository '{repository}' not found",
     args |-> <<project, repository>>,
     status_code |-> 0]

HTTPStatusError(status_code) ==
    [type |-> "HTTPStatusError", text |-> "HTTP error",
     args |-> << >>, status_code |-> status_code]

NetworkError ==
    Exception("ValueError", "Network error connecting to Azure DevOps: {e}")

\* except clauses without the 404 branch
TranslateStatusError_No404(status_code, project, repository) ==
    IF status_code = 401 THEN AuthenticationFailed
    ELSE HTTPStatusError(status_code)

\* the except clauses of get_pull_requests for a failed status
TranslateStatusError(status_code, project, repository) ==
    IF status_code = 401 THEN AuthenticationFailed
    ELSE IF status_code = 404 THEN NotFound(project, repository)
    ELSE HTTPStatusError(status_code)

CaughtAsNetworkError == {"ConnectError", "TimeoutException"}

\* line 111: the list of the mapped pull requests, unless the loop raised
WrapList(pr_list) ==
    IF HasRaised(pr_list) THEN pr_list
    ELSE Returned(from_pull_requests(ValueOf(pr_list)))

\* a get_pull_requests that answers a transport failure with an empty list
HandleResponse_EmptyOnNetworkError(project, repository, o) ==
    IF o.kind = "response"
    THEN IF IsSuccess(o.status_code)
         THEN WrapList(MapPullRequests(Get(o.data, "value", << >>), << >>))
         ELSE Raised(TranslateStatusError(o.status_code, project, repository))
    ELSE Returned(from_pull_requests(<< >>))

\* get_pull_requests from the point where the GET has ended with outcome o
HandleResponse(project, repository, o) ==
    IF o.kind = "response"
    THEN IF IsSuccess(o.status_code)
         THEN WrapList(MapPullRequests(Get(o.data, "value", << >>), << >>))
         ELSE Raised(TranslateStatusError(o.status_code, project, repository))
    ELSE IF o.kind \in CaughtAsNetworkError THEN Raised(NetworkError)
    ELSE Raised(Exception(o.kind, "transport"))

(***************************************************************************)
(* resources.py                                                            *)
(***************************************************************************)
NoOrganizationFound ==
    Exception("ValueError",
              "No organization found. Set ADO_ORGANIZATION environment variable or run from an Azure DevOps git repository")

\* a get_ado_client without the `is None` test
ClientIsUnset_Always(slot) == TRUE

\* line 19: the slot holds no client yet
ClientIsUnset(slot) == IsNone(slot)

\* a resolution that prefers the configured organization to the detected one
ResolveOrganization_ConfiguredFirst(repo_info, cfg) ==
    IF Truthy(cfg.ado_organization) THEN cfg.ado_organization
    ELSE IF ~IsNone(repo_info) THEN Some(TheValue(repo_info).organization)
    ELSE None

\* line 24: the detected organization, else the configured one
ResolveOrganization(repo_info, cfg) ==
    IF ~IsNone(repo_info) THEN Some(TheValue(repo_info).organization)
    ELSE cfg.ado_organization

\* a get_ado_client that assigns _ado_client before it tests `if not org`
SlotAfterResolve_AssignedBeforeTest(slot, org, serial) ==
    Some(AzureDevOpsClient(IF IsNone(org) THEN << >> ELSE TheValue(org), serial))

\* lines 26-33: _ado_client after the resolution of org: the raise at line
\* 27 leaves it as it was, line 33 stores the new client
SlotAfterResolve(slot, org, serial) ==
    IF Truthy(org) THEN Some(AzureDevOpsClient(TheValue(org), serial)) ELSE slot

NotInRepository ==
    [error |-> "Not in an Azure DevOps git repository",
     suggestion |-> "Use explicit organization/project/repository parameters or run from an Azure DevOps git repository"]

\* a str holding the JSON encoding of a document (model_dump_json, json.dumps)
Json(document) == [media |-> "application/json", document |-> document]

(***************************************************************************)
(* Inputs.                                                                 *)
(***************************************************************************)
OrgA == <<"o","a">>
ProjA == <<"p","a">>
RepoA == <<"r","a">>
OrgB == <<"O","b">>
ProjB == <<"P","b">>
RepoB == <<"R","b">>
OrgC == <<"o","c">>

Https == <<"h","t","t","p","s",":","/","/">>
Newline == <<"\n">>

ModernUrlA ==
    Https \o DevAzureCom \o <<"/">> \o OrgA \o <<"/">> \o ProjA
          \o <<"/">> \o GitMarker \o <<"/">> \o RepoA
LegacyUrlB ==
    Https \o OrgB \o <<".">> \o VisualStudioCom \o <<"/">> \o ProjB
          \o <<"/">> \o GitMarker \o <<"/">> \o RepoB
GithubUrl ==
    Https \o <<"g","i","t","h","u","b",".","c","o","m","/","x","/","y">>
UnmatchedBracketUrl ==
    Https \o <<"[">> \o DevAzureCom \o <<"/">> \o OrgA \o <<"/">> \o ProjA
          \o <<"/">> \o GitMarker \o <<"/">> \o RepoA

\* what the git subprocess can do on one invocation
GitOutcomes ==
    { GitExit(1, << >>), GitNotFound, GitTimeout,
      GitExit(0, ModernUrlA \o Newline),
      GitExit(0, LegacyUrlB \o Newline),
      GitExit(0, GithubUrl \o Newline),
      GitExit(0, Newline),
      GitExit(0, UnmatchedBracketUrl \o Newline) }

\* Remote URLs for the parser, by shape.  A member is the URL together with
\* the organization, project and repository it was written from.
UpperChar(c) ==
    IF c \in Range(LowerLetters)
    THEN UpperLetters[CHOOSE i \in 1..26 : LowerLetters[i] = c]
    ELSE c

StrUpper(s) == [i \in 1..Len(s) |-> UpperChar(s[i])]

Triples == { RepoInfo(OrgA, ProjA, RepoA), RepoInfo(OrgB, ProjB, RepoB) }

UrlOf(url, triple) == [url |-> url, triple |-> triple]

\* /{org}/{project}/_git/{repo}
ModernPath(t) ==
    <<"/">> \o t.organization \o <<"/">> \o t.project
            \o <<"/">> \o GitMarker \o <<"/">> \o t.repository

\* /{project}/_git/{repo}
LegacyPath(t) ==
    <<"/">> \o t.project \o <<"/">> \o GitMarker \o <<"/">> \o t.repository

\* userinfo and port, the optional parts of an authority around the host
UserInfos == { << >>, <<"u","@">> }
Ports == { << >>, <<":","4","4","3">> }

\* https://[userinfo@]dev.azure.com[:port]/{org}/{project}/_git/{repo}
ModernUrls ==
    { UrlOf(Https \o ui \o DevAzureCom \o port \o ModernPath(t), t) :
        ui \in UserInfos, port \in Ports, t \in Triples }

\* https://[userinfo@]{org}.visualstudio.com[:port]/{project}/_git/{repo}
LegacyUrls ==
    { UrlOf(Https \o ui \o t.organization \o <<".">> \o VisualStudioCom
                  \o port \o LegacyPath(t), t) :
        ui \in UserInfos, port \in Ports, t \in Triples }

RecognizedUrls == ModernUrls \cup LegacyUrls

\* spellings of the two host markers that differ from them in letter case
DevAzureComSpellings ==
    { StrUpper(DevAzureCom),
      <<"D","e","v",".","A","z","u","r","e",".","c","o","m">> }
VisualStudioComSpellings ==
    { StrUpper(VisualStudioCom),
      <<"V","i","s","u","a","l","S","t","u","d","i","o",".","c","o","m">> }

\* the recognized shapes with the host marker in another letter case
CaseVariantUrls ==
    { UrlOf(Https \o h \o ModernPath(t), t) :
        h \in DevAzureComSpellings, t \in Triples }
    \cup
    { UrlOf(Https \o t.organization \o <<".">> \o h \o LegacyPath(t), t) :
        h \in VisualStudioComSpellings, t \in Triples }

NotAValidUrl == <<"n","o","t","-","a","-","v","a","l","i","d","-","u","r","l">>
ModernNoMarkerUrl ==
    Https \o DevAzureCom \o <<"/">> \o OrgA \o <<"/">> \o ProjA \o <<"/">> \o RepoA
LegacyNoMarkerUrl ==
    Https \o OrgB \o <<".">> \o VisualStudioCom \o <<"/">> \o ProjB
          \o <<"/">> \o RepoB
SshUrl ==
    <<"g","i","t","@","s","s","h",".">> \o DevAzureCom \o <<":","v","3","/">>
        \o OrgA \o <<"/">> \o ProjA \o <<"/">> \o RepoA
GithubGitUrl ==
    Https \o <<"g","i","t","h","u","b",".","c","o","m","/">> \o OrgA
          \o <<"/">> \o ProjA \o <<"/">> \o GitMarker \o <<"/">> \o RepoA
UnmatchedClosingBracketUrl ==
    Https \o OrgB \o <<"]",".">> \o VisualStudioCom \o LegacyPath(RepoInfo(OrgB, ProjB, RepoB))

\* strings of neither recognized shape: another host, no _git marker, not a
\* URL, an authority that does not parse
UnrecognizedUrls ==
    { GithubUrl, GithubGitUrl, NotAValidUrl, ModernNoMarkerUrl, LegacyNoMarkerUrl,
      SshUrl, UnmatchedBracketUrl, UnmatchedClosingBracketUrl }

\* git prints one of the URLs above, or fails
ParserGitOutcomes ==
    { GitExit(0, u.url \o Newline) :
        u \in RecognizedUrls \cup CaseVariantUrls }
    \cup { GitExit(0, u \o Newline) : u \in UnrecognizedUrls }
    \cup { GitExit(1, << >>) }

\* Settings.ado_organization: unset, set to the empty string, set to a name
SettingsChoices ==
    { [ado_organization |-> None],
      [ado_organization |-> Some(<< >>)],
      [ado_organization |-> Some(OrgC)] }

ExplicitCoordinates ==
    { RepoInfo(OrgA, ProjA, RepoA), RepoInfo(OrgB, ProjB, RepoB),
      RepoInfo(OrgC, ProjA, RepoB) }

Statuses == {"active", "completed", "abandoned", "all", "ALL", "bogus", ""}
FewStatuses == {"active", "all"}

\* upstream pull-request objects
FullPR(id) ==
    [pullRequestId |-> id, title |-> "Test PR", description |-> "Test description",
     status |-> "active", creationDate |-> "2024-01-01T00:00:00Z",
     createdBy |-> [displayName |-> "John Doe", uniqueName |-> "john@example.com",
                    id |-> "user-id-123"],
     sourceRefName |-> "refs/heads/feature", targetRefName |-> "refs/heads/main",
     url |-> "https://dev.azure.com/testorg/testproj/_git/testrepo/pullrequest/123",
     repository |-> [id |-> "repo-id-456"]]

Drop(rec, keys) == [k \in DOMAIN rec \ keys |-> rec[k]]

MinimalPR(id) == Drop(FullPR(id), {"description", "createdBy", "url"})

UpstreamPRs == { FullPR(1), MinimalPR(2), Drop(FullPR(3), {"title"}) }

SeqsUpTo(S, n) == UNION { [1..k -> S] : k \in 0..n }

\* 2xx bodies: a value array, or an object without the value key
Payloads ==
    { ("count" :> Len(v)) @@ ("value" :> v) : v \in SeqsUpTo(UpstreamPRs, MaxPRs) }
      \cup { ("count" :> 0) }

\* a pull-request object with one key of the upstream schema left out, and
\* one whose nested repository object has no id
DefectivePRs ==
    { Drop(FullPR(3), {k}) :
        k \in {"pullRequestId", "title", "status", "creationDate",
               "sourceRefName", "targetRefName", "repository"} }
    \cup { [FullPR(3) EXCEPT !.repository = EmptyObject] }

\* pull-request objects with optional parts left out one at a time
SparsePRs ==
    { Drop(FullPR(4), {k}) : k \in {"description", "createdBy", "url"} }
    \cup { [FullPR(4) EXCEPT !.createdBy = Drop(@, {k})] :
             k \in {"displayName", "uniqueName", "id"} }
    \cup { [FullPR(4) EXCEPT !.createdBy = EmptyObject] }

\* 2xx bodies with a defective element first or after a complete one, and
\* with a sparse element
OddPayloads ==
    { ("count" :> 1) @@ ("value" :> << pr >>) : pr \in DefectivePRs \cup SparsePRs }
    \cup { ("count" :> 2) @@ ("value" :> << FullPR(1), pr >>) : pr \in DefectivePRs }

HttpOutcomes ==
    { HttpResponse(200, d) : d \in Payloads \cup OddPayloads }
      \cup { HttpResponse(c, EmptyObject) : c \in {401, 404, 403, 500, 302} }
      \cup { HttpConnectError, HttpTimeout }

FewHttpOutcomes ==
    { HttpResponse(200, ("count" :> 1) @@ ("value" :> << FullPR(1) >>)),
      HttpResponse(401, EmptyObject),
      HttpConnectError }

(***************************************************************************)
(* State of the server process.                                            *)
(*                                                                         *)
(* ado_client   resources._ado_client, the lazily constructed singleton    *)
(* settings     config._settings, read once and immutable                  *)
(* req          the resource requests in flight, one record per slot: the  *)
(*              handler called, its arguments, its locals and its position *)
(* running      the request whose task currently occupies the event loop   *)
(*              thread (None: the loop is free).  A task keeps the thread  *)
(*              until it reaches an await that suspends or until it ends,  *)
(*              and subprocess.run blocks the thread.                      *)
(* constructed  how many times AzureDevOpsClient(...) has been called      *)
(* no_organization_raised                                                  *)
(*              whether get_ado_client has raised its "No organization     *)
(*              found" error in this process (the error is logged by the   *)
(*              handler that called it)                                    *)
(***************************************************************************)
VARIABLES ado_client, settings, req, running, constructed,
          no_organization_raised

vars == <<ado_client, settings, req, running, constructed,
          no_organization_raised>>

Requests == 1..MaxRequests

Pending == [exc |-> None, value |-> None]

NewRequest(pc, handler, organization, project, repository, status) ==
    [pc |-> pc, handler |-> handler,
     organization |-> organization, project |-> project,
     repository |-> repository, status |-> status,
     repo_info |-> None,        \* list_current_pull_requests_resource, line 76
     org_repo_info |-> None,    \* get_ado_client, line 23 (Some(...) once run)
     client |-> None,           \* the handler's local `client`
     git |-> None,              \* how the last git subprocess ended, while
                                \* the code that ran it is still on the stack
     gets |-> << >>,            \* the GETs this request has issued
     git_calls |-> 0,           \* the git subprocesses this request has run
     response |-> None,         \* how the awaited GET ended
     result |-> Pending]        \* what the handler returned or raised

IdleRequest == NewRequest("idle", "none", << >>, << >>, << >>, "")

Init ==
    /\ ado_client = None
    /\ settings \in SettingsChoices
    /\ req = [r \in Requests |-> IdleRequest]
    /\ running = None
    /\ constructed = 0
    /\ no_organization_raised = FALSE

Finished(q) == q.pc \in {"returned", "raised"}

\* the hosting runtime dispatches a read of
\* ado://pull-requests/{organization}/{project}/{repository}; the dispatcher
\* is itself a task of the event loop, so it needs the loop thread
AcceptExplicit(r, statuses) ==
    /\ IsNone(running)
    /\ req[r].pc = "idle"
    /\ \E c \in ExplicitCoordinates, st \in statuses :
         req' = [req EXCEPT ![r] = NewRequest("accepted", "explicit",
                     c.organization, c.project, c.repository, st)]
    /\ UNCHANGED <<ado_client, settings, running, constructed,
                 no_organization_raised>>

\* the hosting runtime dispatches a read of ado://pull-requests/current
AcceptCurrent(r, statuses) ==
    /\ IsNone(running)
    /\ req[r].pc = "idle"
    /\ \E st \in statuses :
         req' = [req EXCEPT ![r] = NewRequest("accepted", "current",
                     << >>, << >>, << >>, st)]
    /\ UNCHANGED <<ado_client, settings, running, constructed,
                 no_organization_raised>>

\* list_pull_requests_resource runs up to its call of get_ado_client
BeginExplicit(r) ==
    /\ IsNone(running)
    /\ req[r].pc = "accepted"
    /\ req[r].handler = "explicit"
    /\ running' = Some(r)
    /\ req' = [req EXCEPT ![r].pc = "get_ado_client"]
    /\ UNCHANGED <<ado_client, settings, constructed,
                 no_organization_raised>>

\* list_current_pull_requests_resource starts: detect_current_repo() launches
\* the git subprocess and blocks on it
BeginCurrent(r) ==
    /\ IsNone(running)
    /\ req[r].pc = "accepted"
    /\ req[r].handler = "current"
    /\ running' = Some(r)
    /\ req' = [req EXCEPT ![r].pc = "detect",
                          ![r].git_calls = @ + 1]
    /\ UNCHANGED <<ado_client, settings, constructed,
                 no_organization_raised>>

\* the subprocess of line 76 ends; lines 78-88
HandlerDetect(r, outcomes) ==
    /\ running = Some(r)
    /\ req[r].pc = "detect"
    /\ \E o \in outcomes :
         \E d \in {detect_current_repo(o)} :
            IF HasRaised(d)
            THEN req' = [req EXCEPT ![r].pc = "raised", ![r].git = Some(o),
                                    ![r].result = d]
            ELSE IF IsNone(ValueOf(d))
            THEN req' = [req EXCEPT ![r].pc = "returned", ![r].git = Some(o),
                                    ![r].result = Returned(Json(NotInRepository))]
            ELSE req' = [req EXCEPT ![r].pc = "get_ado_client", ![r].git = Some(o),
                                    ![r].repo_info = ValueOf(d)]
    /\ UNCHANGED <<ado_client, settings, running, constructed,
                 no_organization_raised>>

\* get_ado_client, lines 17-23 and 35: return the stored client, or start
\* detect_current_repo() for the organization
GetAdoClient(r) ==
    /\ running = Some(r)
    /\ req[r].pc = "get_ado_client"
    /\ IF ClientIsUnset(ado_client)
       THEN req' = [req EXCEPT ![r].pc = "resolve",
                               ![r].git_calls = @ + 1]
       ELSE req' = [req EXCEPT ![r].pc = "fetch",
                               ![r].client = ado_client]
    /\ UNCHANGED <<ado_client, settings, running, constructed,
                 no_organization_raised>>

Min(a, b) == IF a <= b THEN a ELSE b

\* get_ado_client, lines 23-35: the subprocess ends, the organization is
\* resolved and the client is constructed and stored
ResolveClient(r, outcomes) ==
    /\ running = Some(r)
    /\ req[r].pc = "resolve"
    /\ \E o \in outcomes :
         \E d \in {detect_current_repo(o)} :
            IF HasRaised(d)
            THEN /\ req' = [req EXCEPT ![r].pc = "raised", ![r].git = Some(o),
                                       ![r].result = d]
                 /\ UNCHANGED <<ado_client, constructed, no_organization_raised>>
            ELSE \E org \in {ResolveOrganization(ValueOf(d), settings)} :
                 \E slot \in {SlotAfterResolve(ado_client, org, constructed + 1)} :
                    /\ ado_client' = slot
                    /\ IF ~Truthy(org)
                       THEN /\ req' = [req EXCEPT
                                         ![r].pc = "raised",
                                         ![r].git = Some(o),
                                         ![r].org_repo_info = Some(ValueOf(d)),
                                         ![r].result = Raised(NoOrganizationFound)]
                            /\ no_organization_raised' = TRUE
                            /\ UNCHANGED constructed
                       ELSE /\ constructed' = Min(constructed + 1, MaxConstructions)
                            /\ req' = [req EXCEPT
                                         ![r].pc = "fetch",
                                         ![r].git = Some(o),
                                         ![r].org_repo_info = Some(ValueOf(d)),
                                         ![r].client = slot]
                            /\ UNCHANGED no_organization_raised
    /\ UNCHANGED <<settings, running>>

\* the project and repository a handler passes to get_pull_requests
TargetProject(q) ==
    IF q.handler = "explicit" THEN q.project ELSE TheValue(q.repo_info).project
TargetRepository(q) ==
    IF q.handler = "explicit" THEN q.repository ELSE TheValue(q.repo_info).repository

\* get_pull_requests up to `await self.client.get(...)`: the GET goes out
\* and the coroutine suspends
Fetch(r) ==
    /\ running = Some(r)
    /\ req[r].pc = "fetch"
    /\ req' = [req EXCEPT
                 ![r].pc = "http_wait",
                 ![r].git = None,
                 ![r].gets = Append(@, BuildRequest(TheValue(req[r].client),
                                                    TargetProject(req[r]),
                                                    TargetRepository(req[r]),
                                                    req[r].status))]
    /\ running' = None
    /\ UNCHANGED <<ado_client, settings, constructed,
                 no_organization_raised>>

\* the GET ends, the coroutine resumes and runs to the end of the handler
Respond(r, outcomes) ==
    /\ IsNone(running)
    /\ req[r].pc = "http_wait"
    /\ \E o \in outcomes :
         \E res \in {HandleResponse(TargetProject(req[r]), TargetRepository(req[r]), o)} :
            IF HasRaised(res)
            THEN req' = [req EXCEPT ![r].pc = "raised",
                                    ![r].response = Some(o),
                                    ![r].result = res]
            ELSE req' = [req EXCEPT ![r].pc = "returned",
                                    ![r].response = Some(o),
                                    ![r].result = Returned(Json(ValueOf(res)))]
    /\ running' = Some(r)
    /\ UNCHANGED <<ado_client, settings, constructed,
                 no_organization_raised>>

\* the handler's return value or exception goes back to the hosting runtime,
\* which answers the read; the request is over
Deliver(r) ==
    /\ running = Some(r)
    /\ Finished(req[r])
    /\ req' = [req EXCEPT ![r] = IdleRequest]
    /\ running' = None
    /\ UNCHANGED <<ado_client, settings, constructed,
                 no_organization_raised>>

\* The process: concurrent requests, few statuses and few upstream answers.
Next ==
    \E r \in Requests :
        \/ AcceptExplicit(r, FewStatuses)
        \/ AcceptCurrent(r, FewStatuses)
        \/ BeginExplicit(r)
        \/ BeginCurrent(r)
        \/ HandlerDetect(r, GitOutcomes)
        \/ GetAdoClient(r)
        \/ ResolveClient(r, GitOutcomes)
        \/ Fetch(r)
        \/ Respond(r, FewHttpOutcomes)
        \/ Deliver(r)

Spec == Init /\ [][Next]_vars

\* One request at a time, every status and every upstream answer.
NextClient ==
    \/ AcceptExplicit(1, Statuses)
    \/ AcceptCurrent(1, Statuses)
    \/ BeginExplicit(1)
    \/ BeginCurrent(1)
    \/ HandlerDetect(1, GitOutcomes)
    \/ GetAdoClient(1)
    \/ ResolveClient(1, GitOutcomes)
    \/ Fetch(1)
    \/ Respond(1, HttpOutcomes)
    \/ Deliver(1)

SpecClient == Init /\ [][NextClient]_vars

\* One current-repository request at a time, every remote URL of the parser's
\* input families.
NextParser ==
    \/ AcceptCurrent(1, {"active"})
    \/ BeginCurrent(1)
    \/ HandlerDetect(1, ParserGitOutcomes)
    \/ GetAdoClient(1)
    \/ ResolveClient(1, ParserGitOutcomes)
    \/ Fetch(1)
    \/ Respond(1, FewHttpOutcomes)
    \/ Deliver(1)

SpecParser == Init /\ [][NextParser]_vars

(***************************************************************************)
(* Properties.                                                             *)
(***************************************************************************)
\* the address of the pull-request collection of organization/project/repository
PullRequestsUrl(organization, project, repository) ==
    HttpsDevAzureCom \o organization \o <<"/">> \o project
        \o ApisGitRepositories \o repository \o PullRequestsSuffix

\* C1: every GET issued for an explicit-coordinates request is addressed to
\* the organization, project and repository passed in that call.
C1_ExplicitFetchUsesArgumentOrganization ==
    \A r \in Requests :
        req[r].handler = "explicit" =>
            \A i \in 1..Len(req[r].gets) :
                req[r].gets[i].url =
                    PullRequestsUrl(req[r].organization, req[r].project,
                                    req[r].repository)

\* C2: AzureDevOpsClient is constructed at most once; every request that
\* obtained a client holds the stored instance; once the slot holds a
\* client it never changes again.
C2_ClientConstructedOnce ==
    /\ [](constructed <= 1)
    /\ [](\A r \in Requests :
            ~IsNone(req[r].client) => req[r].client = ado_client)
    /\ [][~IsNone(ado_client) => ado_client' = ado_client]_vars

\* Two requests are in flight on the same client: one constructed it, the
\* other, whose own detection found another organization, reused it.
C2_Witness ==
    \E r1, r2 \in Requests :
        /\ r1 # r2
        /\ req[r1].pc = "http_wait" /\ ~IsNone(req[r1].org_repo_info)
        /\ req[r2].pc = "http_wait" /\ IsNone(req[r2].org_repo_info)
        /\ req[r2].client = req[r1].client
        /\ ~IsNone(req[r2].repo_info)
        /\ TheValue(req[r2].repo_info).organization
             # TheValue(ado_client).organization

\* C3: when get_ado_client resolves the organization, the client it
\* constructs has the detected organization if detection returned a
\* repository, else the configured organization if that is set and
\* non-empty; otherwise the request raises the "No organization found"
\* error, holds no client and has issued no GET, and the step that raises
\* neither stores nor constructs a client.
C3_OrganizationResolution ==
    /\ [](\A r \in Requests :
            ~IsNone(req[r].org_repo_info) =>
                LET detected == TheValue(req[r].org_repo_info)
                    configured == settings.ado_organization
                IN IF ~IsNone(detected)
                   THEN /\ ~IsNone(req[r].client)
                        /\ TheValue(req[r].client).organization
                             = TheValue(detected).organization
                   ELSE IF configured # None /\ configured # Some(<< >>)
                   THEN /\ ~IsNone(req[r].client)
                        /\ TheValue(req[r].client).organization
                             = TheValue(configured)
                   ELSE /\ req[r].pc = "raised"
                        /\ TheValue(req[r].result.exc).type = "ValueError"
                        /\ TheValue(req[r].result.exc).text = NoOrganizationFound.text
                        /\ IsNone(req[r].client)
                        /\ req[r].gets = << >>)
    /\ [][\A r \in Requests :
            (req[r].pc = "resolve" /\ req'[r].pc = "raised") =>
                (ado_client' = ado_client /\ constructed' = constructed)]_vars

\* Detection found nothing inside get_ado_client and the client was
\* constructed for the configured organization.
C3_Witness ==
    \E r \in Requests :
        /\ req[r].org_repo_info = Some(None)
        /\ req[r].pc = "http_wait"
        /\ ado_client = req[r].client
        /\ TheValue(ado_client).organization = OrgC

\* C4: a current-repository request whose detection yielded no repository
\* ends by returning a JSON object with exactly the keys error and
\* suggestion, without raising, without a GET and without a client.
C4_NoRepositoryReturnsErrorObject ==
    \A r \in Requests :
        (/\ req[r].handler = "current"
         /\ Finished(req[r])
         /\ IsNone(req[r].repo_info)) =>
            /\ req[r].pc = "returned"
            /\ IsNone(req[r].result.exc)
            /\ DOMAIN ValueOf(req[r].result).document = {"error", "suggestion"}
            /\ req[r].gets = << >>
            /\ IsNone(req[r].client)

\* C5: every GET issued for a current-repository request is addressed to
\* the organization, project and repository that the handler detected.
C5_CurrentFetchUsesDetectedTriple ==
    \A r \in Requests :
        (req[r].handler = "current" /\ ~IsNone(req[r].repo_info)) =>
            \A i \in 1..Len(req[r].gets) :
                req[r].gets[i].url =
                    PullRequestsUrl(TheValue(req[r].repo_info).organization,
                                    TheValue(req[r].repo_info).project,
                                    TheValue(req[r].repo_info).repository)

\* the GET of a request ended in a failure
GetFailed(q) ==
    /\ ~IsNone(q.response)
    /\ \/ TheValue(q.response).kind # "response"
       \/ TheValue(q.response).status_code < 200
       \/ TheValue(q.response).status_code > 299

\* C6 as stated: a request issues at most one GET and runs at most one git
\* subprocess, and a failed GET fails the request.
C6_AtMostOneGetAndOneGit ==
    \A r \in Requests :
        /\ Len(req[r].gets) <= 1
        /\ req[r].git_calls <= 1
        /\ GetFailed(req[r]) => req[r].pc = "raised"

\* C6 as amended: a request issues at most one GET; an explicit-coordinates
\* request runs at most one git subprocess and a current-repository request
\* at most two, the second one only inside get_ado_client when no client is
\* stored yet (a request that reuses the stored client runs none there); a
\* failed GET is not issued again and the request ends by raising.
C6_AtMostOneGetAndTwoGit ==
    \A r \in Requests :
        LET inHandler == IF req[r].handler = "current" THEN 1 ELSE 0
            reused == ~IsNone(req[r].client) /\ IsNone(req[r].org_repo_info)
        IN /\ Len(req[r].gets) <= 1
           /\ req[r].git_calls <= inHandler + 1
           /\ reused => req[r].git_calls = inHandler
           /\ GetFailed(req[r]) =>
                (req[r].pc = "raised" /\ Len(req[r].gets) = 1
                    /\ IsNone(req[r].result.value))

\* The first current-repository request of the process ran git twice,
\* issued its one GET, and the GET failed.
C6_Witness ==
    \E r \in Requests :
        /\ req[r].handler = "current"
        /\ req[r].git_calls = 2
        /\ Len(req[r].gets) = 1
        /\ GetFailed(req[r])
        /\ req[r].pc = "raised"

C8_StatusParameter ==
    \A r \in Requests :
        \A i \in 1..Len(req[r].gets) :
            LET params == req[r].gets[i].params
            IN /\ "api-version" \in DOMAIN params
               /\ params["api-version"] = "7.1"
               /\ IF req[r].status = "all"
                  THEN DOMAIN params = {"api-version"}
                  ELSE /\ DOMAIN params = {"api-version", "searchCriteria.status"}
                       /\ params["searchCriteria.status"] = req[r].status

\* The empty status filter went out as the status parameter.
C8_Witness ==
    \E r \in Requests :
        /\ req[r].status = ""
        /\ Len(req[r].gets) = 1
        /\ req[r].gets[1].params["searchCriteria.status"] = ""

\* C9: a returned list has count equal to the number of its entries, one
\* entry per element of the upstream value array in the same order; an
\* empty or absent value array gives count 0 and no entries.
C9_CountAndOrder ==
    \A r \in Requests :
        (req[r].pc = "returned" /\ ~IsNone(req[r].response)) =>
            LET doc == ValueOf(req[r].result).document
                data == TheValue(req[r].response).data
                value == IF "value" \in DOMAIN data THEN data["value"] ELSE << >>
            IN /\ DOMAIN doc = {"pull_requests", "count"}
               /\ doc.count = Len(doc.pull_requests)
               /\ Len(doc.pull_requests) = Len(value)
               /\ \A i \in 1..Len(value) :
                    doc.pull_requests[i].pull_request_id = value[i]["pullRequestId"]
               /\ value = << >> => (doc.count = 0 /\ doc.pull_requests = << >>)

\* A list of two pull requests came back in upstream order (2 before 1).
C9_Witness ==
    \E r \in Requests :
        /\ req[r].pc = "returned"
        /\ ~IsNone(req[r].response)
        /\ ValueOf(req[r].result).document.count = 2
        /\ ValueOf(req[r].result).document.pull_requests[1].pull_request_id = 2
        /\ ValueOf(req[r].result).document.pull_requests[2].pull_request_id = 1

\* t is s without its leading and trailing whitespace
IsTrimOf(t, s) ==
    \E i \in 0..Len(s), j \in 0..Len(s) :
        /\ t = SubSeq(s, i + 1, j)
        /\ \A k \in 1..i : s[k] \in Whitespace
        /\ \A k \in (j + 1)..Len(s) : s[k] \in Whitespace
        /\ t # << >> => (t[1] \notin Whitespace /\ t[Len(t)] \notin Whitespace)

\* C10: get_git_remote_url never raises: a non-zero exit, a missing tool
\* and a timeout give None, a success gives the trimmed output; and the
\* detection a request ran never ends in an exception (a request that has
\* just run git raises only the "No organization found" error).
C10_DetectionNeverRaises ==
    \A r \in Requests :
        ~IsNone(req[r].git) =>
            LET o == TheValue(req[r].git)
                url == get_git_remote_url(o)
            IN /\ ~HasRaised(url)
               /\ (o.kind # "exit" \/ o.returncode # 0) => ValueOf(url) = None
               /\ (o.kind = "exit" /\ o.returncode = 0) =>
                    (~IsNone(ValueOf(url)) /\ IsTrimOf(TheValue(ValueOf(url)), o.stdout))
               /\ req[r].pc = "raised" =>
                    TheValue(req[r].result.exc).text = NoOrganizationFound.text

\* the handler's detection of request q has ended on the remote URL url
DetectedOn(q, url) ==
    /\ q.handler = "current"
    /\ q.git_calls = 1
    /\ q.pc # "detect"
    /\ q.git = Some(GitExit(0, url \o Newline))

\* C11: for every URL of a recognized shape (modern host with path
\* /{org}/{project}/_git/{repo}, legacy host {org}.visualstudio.com with
\* path /{project}/_git/{repo}), detection yields exactly that organization,
\* project and repository, casing preserved.
C11_RecognizedShapeYieldsTriple ==
    \A r \in Requests : \A u \in RecognizedUrls :
        DetectedOn(req[r], u.url) => req[r].repo_info = Some(u.triple)

\* C12: for every string of neither recognized shape, the parser returns
\* no match and does not raise: the request that detected on it has no
\* repository and ends by returning, not by raising.
C12_UnrecognizedYieldsNoMatch ==
    \A r \in Requests : \A url \in UnrecognizedUrls :
        DetectedOn(req[r], url) =>
            /\ IsNone(req[r].repo_info)
            /\ req[r].pc = "returned"
            /\ IsNone(req[r].result.exc)

\* C15: a URL whose host differs from a recognized host only in letter case
\* is recognized and yields the triple of its lower-case-host form, with
\* organization, project and repository casing preserved.
C15_HostCaseInsensitive ==
    \A r \in Requests : \A u \in CaseVariantUrls :
        DetectedOn(req[r], u.url) => req[r].repo_info = Some(u.triple)

\* request q waits for its git subprocess or for its GET to end
AwaitingIO(q) == q.pc \in {"detect", "resolve", "http_wait"}

\* a step of request r: its acceptance or any step of its handler
StepOf(r) ==
    \/ AcceptExplicit(r, FewStatuses)
    \/ AcceptCurrent(r, FewStatuses)
    \/ BeginExplicit(r)
    \/ BeginCurrent(r)
    \/ HandlerDetect(r, GitOutcomes)
    \/ GetAdoClient(r)
    \/ ResolveClient(r, GitOutcomes)
    \/ Fetch(r)
    \/ Respond(r, FewHttpOutcomes)
    \/ Deliver(r)

\* C13: while a request waits for its git subprocess or its GET, some other
\* request can be accepted or take a step: no request's pending I/O keeps
\* every other request from progressing.
C13_PendingIODoesNotBlockOthers ==
    \A r \in Requests :
        AwaitingIO(req[r]) => \E q \in Requests \ {r} : ENABLED StepOf(q)

\* an element of the upstream value array lacks a mandatory field: id,
\* title, status, creation date, source ref, target ref, repository id
LacksMandatoryField(u) ==
    \/ \E k \in {"pullRequestId", "title", "status", "creationDate",
                 "sourceRefName", "targetRefName"} : k \notin DOMAIN u
    \/ "repository" \notin DOMAIN u
    \/ "id" \notin DOMAIN u["repository"]

\* the author field k of the upstream element u is missing
LacksAuthorField(u, k) ==
    "createdBy" \notin DOMAIN u \/ k \notin DOMAIN u["createdBy"]

\* entry e carries the mandatory fields of u, the optional fields u has, and
\* the defaults for the optional fields u lacks
MappedWithDefaults(e, u) ==
    /\ e.pull_request_id = u["pullRequestId"]
    /\ e.title = u["title"]
    /\ e.status = u["status"]
    /\ e.created_date = u["creationDate"]
    /\ e.source_ref_name = u["sourceRefName"]
    /\ e.target_ref_name = u["targetRefName"]
    /\ e.repository_id = u["repository"]["id"]
    /\ e.created_by.display_name =
         (IF LacksAuthorField(u, "displayName") THEN "Unknown"
          ELSE u["createdBy"]["displayName"])
    /\ e.created_by.unique_name =
         (IF LacksAuthorField(u, "uniqueName") THEN ""
          ELSE u["createdBy"]["uniqueName"])
    /\ e.created_by.id =
         (IF LacksAuthorField(u, "id") THEN "" ELSE u["createdBy"]["id"])
    /\ e.description =
         (IF "description" \notin DOMAIN u THEN None ELSE Some(u["description"]))
    /\ e.url = (IF "url" \notin DOMAIN u THEN "" ELSE u["url"])

\* C14: for a 2xx answer, the request raises and returns no list if any
\* element of value lacks a mandatory field; otherwise it returns the list,
\* each entry with the defaults for the optional fields its element lacks
\* (author display name "Unknown", author unique name and id "",
\* description absent, url "").
C14_MandatoryFieldsOrError ==
    \A r \in Requests :
        (/\ ~IsNone(req[r].response)
         /\ TheValue(req[r].response).kind = "response"
         /\ TheValue(req[r].response).status_code \in 200..299) =>
            LET data == TheValue(req[r].response).data
                value == IF "value" \in DOMAIN data THEN data["value"] ELSE << >>
            IN IF \E i \in 1..Len(value) : LacksMandatoryField(value[i])
               THEN /\ req[r].pc = "raised"
                    /\ ~IsNone(req[r].result.exc)
                    /\ IsNone(req[r].result.value)
               ELSE /\ req[r].pc = "returned"
                    /\ Len(ValueOf(req[r].result).document.pull_requests) = Len(value)
                    /\ \A i \in 1..Len(value) :
                         MappedWithDefaults(
                            ValueOf(req[r].result).document.pull_requests[i], value[i])

\* A 200 answer whose second element has a repository object without id:
\* the request raised KeyError although the first element was complete.
C14_Witness ==
    \E r \in Requests :
        /\ req[r].pc = "raised"
        /\ ~IsNone(req[r].response)
        /\ TheValue(req[r].response).status_code = 200
        /\ "value" \in DOMAIN TheValue(req[r].response).data
        /\ Len(TheValue(req[r].response).data["value"]) = 2
        /\ ~LacksMandatoryField(TheValue(req[r].response).data["value"][1])
        /\ "repository" \in DOMAIN TheValue(req[r].response).data["value"][2]
        /\ TheValue(req[r].response).data["value"][2]["repository"] = EmptyObject
        /\ TheValue(req[r].result.exc).type = "KeyError"
        /\ IsNone(req[r].result.value)

\* the step in which request r fails inside get_ado_client because no
\* organization can be resolved
FailsForNoOrganization(r) ==
    /\ req[r].pc = "resolve"
    /\ req'[r].pc = "raised"
    /\ TheValue(req'[r].result.exc).text = NoOrganizationFound.text

\* C16: the step in which a request fails because no organization can be
\* resolved leaves the client slot unset and changes nothing but that
\* request's own record; after such a failure, a request that reaches
\* get_ado_client while the slot is unset runs the resolution again (one
\* more git subprocess), and a resolution whose detection yields a
\* repository constructs and stores the client for the detected
\* organization and goes on to its fetch.
C16_FailedResolutionLeavesSlotUnset ==
    /\ [][\A r \in Requests :
            FailsForNoOrganization(r) =>
                /\ IsNone(ado_client) /\ IsNone(ado_client')
                /\ constructed' = constructed
                /\ settings' = settings
                /\ running' = running
                /\ \A q \in Requests \ {r} : req'[q] = req[q]]_vars
    /\ [][\A r \in Requests :
            (/\ no_organization_raised
             /\ IsNone(ado_client)
             /\ req[r].pc = "get_ado_client"
             /\ req'[r].pc # "get_ado_client") =>
                /\ req'[r].pc = "resolve"
                /\ req'[r].git_calls = req[r].git_calls + 1]_vars
    /\ [][\A r \in Requests :
            (/\ no_organization_raised
             /\ req[r].pc = "resolve"
             /\ req'[r].pc # "resolve") =>
                \A u \in { UrlOf(ModernUrlA, RepoInfo(OrgA, ProjA, RepoA)),
                           UrlOf(LegacyUrlB, RepoInfo(OrgB, ProjB, RepoB)) } :
                    req'[r].git = Some(GitExit(0, u.url \o Newline)) =>
                        /\ ~IsNone(ado_client')
                        /\ TheValue(ado_client').organization = u.triple.organization
                        /\ req'[r].client = ado_client'
                        /\ req'[r].pc = "fetch"]_vars

\* After a request failed for want of an organization, a later request ran
\* the resolution again, constructed the client and is fetching with it.
C16_Witness ==
    /\ no_organization_raised
    /\ \E r \in Requests :
        /\ req[r].pc = "http_wait"
        /\ ~IsNone(req[r].org_repo_info)
        /\ ~IsNone(ado_client)
        /\ req[r].client = ado_client
====
